---- MODULE Spec2Model ----
(***************************************************************************)
(* Model of src/operator.ts: the auction operator.                         *)
(*                                                                         *)
(* main() registers the event listeners, awaits one eager invocation of    *)
(* checkAuctionStatus() and then arms setInterval(checkAuctionStatus,      *)
(* POLL_INTERVAL).  Every invocation of checkAuctionStatus() is an async   *)
(* function: it runs up to its next `await`, is suspended there for an     *)
(* unbounded external latency, and is resumed by the resolution or the     *)
(* rejection of the awaited promise.  One action of the model is one such  *)
(* resumption, run to the next await (or to the end of the function).      *)
(*                                                                         *)
(* The contract is external: `ext` holds the part of its state that the    *)
(* three view functions expose to the operator.                            *)
(***************************************************************************)
EXTENDS Naturals, Sequences, FiniteSets, Bags

(***************************************************************************)
(* Bounds of the model.                                                    *)
(***************************************************************************)
\* Number of invocations of checkAuctionStatus that can be suspended at the
\* same time.  setInterval itself puts no limit on it.
MaxInFlight == 2

(***************************************************************************)
(* Program constants.                                                      *)
(***************************************************************************)
\* ethers.constants.AddressZero
AddressZero == "0x0"
\* A participant address, as in the example of the specification.
RealWinner == "0xABC"
\* Token ids a winner can hold.
TokenIds == {7, 8}

\* ethers.utils.parseUnits(value, decimals): value * 10^decimals as a
\* BigNumber, kept as the pair because 10^18 does not fit TLC's integers.
ParseUnits(value, decimals) == [value |-> value, decimals |-> decimals]

NEW_AUCTION_START_PRICE == ParseUnits(100, 18)
NEW_AUCTION_END_PRICE == ParseUnits(10, 18)

\* "0x" + "0".repeat(64)
zeroProof == "0x0000000000000000000000000000000000000000000000000000000000000000"

ReadNames == {"getAuctionState", "getWinnerInfo", "getAdminState"}
CommandNames == {"endAuctionNoBids", "startAuction", "submitProof", "claimPayment"}

VARIABLES
    ext,      \* the contract's state as the view functions report it
    mainPc,   \* position of main(): "startup", "polling" or "exited"
    timer,    \* the interval timer: "off" or "armed"
    cyc,      \* the bag of the suspended invocations of checkAuctionStatus
    last,     \* history: the most recently finished invocation, as it ended
    notified  \* flips whenever an event listener logs a notification

vars == <<ext, mainPc, timer, cyc, last, notified>>

(***************************************************************************)
(* The external contract, as far as the ABI of the operator exposes it.    *)
(***************************************************************************)
WinnerInfos ==
    {[winner |-> AddressZero, winningTokenId |-> 0]}
    \cup {[winner |-> RealWinner, winningTokenId |-> t] : t \in TokenIds}

\* `ended` is the third value of getAdminState: the auction was closed by
\* endAuctionNoBids and not started again.  The operator never looks at it.
ExtStates ==
    {e \in [isActive : BOOLEAN, winner : {w.winner : w \in WinnerInfos},
            winningTokenId : {w.winningTokenId : w \in WinnerInfos},
            proofSubmitted : BOOLEAN, claimed : BOOLEAN, ended : BOOLEAN] :
        /\ [winner |-> e.winner, winningTokenId |-> e.winningTokenId]
                \in WinnerInfos
        /\ (e.ended => ~e.isActive)}

\* The effect of a committed command.
ApplyCommand(cmd, e) ==
    CASE cmd = "endAuctionNoBids" -> [e EXCEPT !.isActive = FALSE, !.ended = TRUE]
      [] cmd = "startAuction" ->
            [isActive |-> TRUE, winner |-> AddressZero, winningTokenId |-> 0,
             proofSubmitted |-> FALSE, claimed |-> FALSE, ended |-> FALSE]
      [] cmd = "submitProof" -> [e EXCEPT !.proofSubmitted = TRUE]
      [] cmd = "claimPayment" -> [e EXCEPT !.claimed = TRUE]

\* The effect of the command is in place in the contract's state.
InEffect(cmd, e) ==
    CASE cmd = "endAuctionNoBids" -> e.ended
      [] cmd = "startAuction" -> e.isActive
      [] cmd = "submitProof" -> e.proofSubmitted
      [] cmd = "claimPayment" -> e.claimed

(***************************************************************************)
(* One invocation of checkAuctionStatus.                                   *)
(*   pc      "idle"   not entered                                          *)
(*           a read name: suspended at `await contract.<read>()`           *)
(*           "call"   suspended at `await contract.<cmd>(...)`             *)
(*           "wait"   suspended at `await tx.wait()`                       *)
(*           "done"   returned normally                                    *)
(*           "failed" returned from the catch block                        *)
(*           "thrown" the returned promise was rejected                    *)
(*   cmd     the command of the pending call/wait                          *)
(*   reads   the view functions called so far, in order                    *)
(*   issued  the state-changing functions called so far, in order          *)
(*   confirmed  how many of them had their tx.wait() resolve               *)
(*   error   the await whose rejection reached the catch block             *)
(***************************************************************************)
NoCmd == ""
NoError == [at |-> "", cmd |-> NoCmd]

IdleCycle ==
    [pc |-> "idle", cmd |-> NoCmd, reads |-> <<>>,
     isActive |-> FALSE, winner |-> AddressZero, winningTokenId |-> 0,
     proofSubmitted |-> FALSE, claimed |-> FALSE,
     issued |-> <<>>, confirmed |-> 0, error |-> NoError]

\* checkAuctionStatus() is entered: it runs to `await contract.getAuctionState()`.
\* All its variables are locals of the call; nothing survives from earlier calls.
EnterCycle ==
    [IdleCycle EXCEPT !.pc = "getAuctionState", !.reads = <<"getAuctionState">>]

Finished(c) == c.pc \in {"idle", "done", "failed", "thrown"}
Running(c) == ~Finished(c)
Outstanding(c) == c.pc \in {"call", "wait"}

\* The call of a state-changing contract function, up to its await.
Dispatch(c, cmd, args) ==
    [c EXCEPT !.pc = "call", !.cmd = cmd,
              !.issued = Append(@, [cmd |-> cmd, args |-> args])]

\* The call of a view function, up to its await.
Read(c, name) == [c EXCEPT !.pc = name, !.reads = Append(@, name)]

\* Normal return of the function.
Return(c) == [c EXCEPT !.pc = "done", !.cmd = NoCmd]

\* Variant of AfterGetAuctionState without the `return` of line 195.
AfterGetAuctionStateNoReturn(c, isActive) ==
    Read([c EXCEPT !.isActive = isActive], "getWinnerInfo")

\* Lines 186-201: the snapshot arrived.  currentPrice and timeRemaining are
\* only logged.
AfterGetAuctionState(c, isActive) ==
    LET d == [c EXCEPT !.isActive = isActive]
    IN  IF isActive THEN Return(d) ELSE Read(d, "getWinnerInfo")

\* Variant of AfterGetWinnerInfo that fetches the admin state before it looks
\* at the winner.
AfterGetWinnerInfoEager(c, info) ==
    Read([c EXCEPT !.winner = info.winner,
                   !.winningTokenId = info.winningTokenId], "getAdminState")

\* Variant of AfterGetWinnerInfo without the no-bids branch: with the zero
\* winner the function returns.
AfterGetWinnerInfoSkipNoBids(c, info) ==
    LET d == [c EXCEPT !.winner = info.winner,
                       !.winningTokenId = info.winningTokenId]
    IN  IF d.winner = AddressZero
        THEN Return(d)
        ELSE Read(d, "getAdminState")

\* Lines 201-222: the winner info arrived.
AfterGetWinnerInfo(c, info) ==
    LET d == [c EXCEPT !.winner = info.winner,
                       !.winningTokenId = info.winningTokenId]
    IN  IF d.winner = AddressZero
        THEN Dispatch(d, "endAuctionNoBids", <<>>)
        ELSE Read(d, "getAdminState")

\* Variant of AfterGetAdminState that takes the token id from the previous
\* invocation when there is one.
AfterGetAdminStateCachedToken(c, proofSubmitted, claimed) ==
    LET d == [c EXCEPT !.proofSubmitted = proofSubmitted, !.claimed = claimed]
        t == IF last.c.winner # AddressZero
             THEN last.c.winningTokenId ELSE d.winningTokenId
    IN  IF ~proofSubmitted
        THEN Dispatch(d, "submitProof", <<t, zeroProof>>)
        ELSE IF proofSubmitted /\ ~claimed
        THEN Dispatch(d, "claimPayment", <<t>>)
        ELSE Dispatch(d, "startAuction",
                      <<NEW_AUCTION_START_PRICE, NEW_AUCTION_END_PRICE>>)

\* Variant of AfterGetAdminState that remembers a proof it has submitted: when
\* the previous invocation called submitProof it goes on to claimPayment
\* whatever it read.
AfterGetAdminStateRemembersProof(c, proofSubmitted, claimed) ==
    LET d == [c EXCEPT !.proofSubmitted = proofSubmitted, !.claimed = claimed]
        sent == \E k \in 1..Len(last.c.issued) :
                    last.c.issued[k].cmd = "submitProof"
    IN  IF ~proofSubmitted /\ ~sent
        THEN Dispatch(d, "submitProof", <<d.winningTokenId, zeroProof>>)
        ELSE IF ~claimed
        THEN Dispatch(d, "claimPayment", <<d.winningTokenId>>)
        ELSE Dispatch(d, "startAuction",
                      <<NEW_AUCTION_START_PRICE, NEW_AUCTION_END_PRICE>>)

\* Variant of AfterGetAdminState whose first test is narrowed to
\* `!proofSubmitted && !claimed`.
AfterGetAdminStateProofIfUnclaimed(c, proofSubmitted, claimed) ==
    LET d == [c EXCEPT !.proofSubmitted = proofSubmitted, !.claimed = claimed]
    IN  IF ~proofSubmitted /\ ~claimed
        THEN Dispatch(d, "submitProof", <<d.winningTokenId, zeroProof>>)
        ELSE IF proofSubmitted /\ ~claimed
        THEN Dispatch(d, "claimPayment", <<d.winningTokenId>>)
        ELSE IF proofSubmitted /\ claimed
        THEN Dispatch(d, "startAuction",
                      <<NEW_AUCTION_START_PRICE, NEW_AUCTION_END_PRICE>>)
        ELSE Return(d)

\* Variant of AfterGetAdminState without the claimPayment branch.
AfterGetAdminStateNoClaim(c, proofSubmitted, claimed) ==
    LET d == [c EXCEPT !.proofSubmitted = proofSubmitted, !.claimed = claimed]
    IN  IF ~proofSubmitted
        THEN Dispatch(d, "submitProof", <<d.winningTokenId, zeroProof>>)
        ELSE Dispatch(d, "startAuction",
                      <<NEW_AUCTION_START_PRICE, NEW_AUCTION_END_PRICE>>)

\* Variant of AfterGetAdminState whose second test is `proofSubmitted` alone,
\* so that the last branch is never taken.
AfterGetAdminStateNoRestart(c, proofSubmitted, claimed) ==
    LET d == [c EXCEPT !.proofSubmitted = proofSubmitted, !.claimed = claimed]
    IN  IF ~proofSubmitted
        THEN Dispatch(d, "submitProof", <<d.winningTokenId, zeroProof>>)
        ELSE Dispatch(d, "claimPayment", <<d.winningTokenId>>)

\* Lines 222-250: the admin state arrived.  adminState.ended is not used.
AfterGetAdminState(c, proofSubmitted, claimed) ==
    LET d == [c EXCEPT !.proofSubmitted = proofSubmitted, !.claimed = claimed]
    IN  IF ~proofSubmitted
        THEN Dispatch(d, "submitProof", <<d.winningTokenId, zeroProof>>)
        ELSE IF proofSubmitted /\ ~claimed
        THEN Dispatch(d, "claimPayment", <<d.winningTokenId>>)
        ELSE IF proofSubmitted /\ claimed
        THEN Dispatch(d, "startAuction",
                      <<NEW_AUCTION_START_PRICE, NEW_AUCTION_END_PRICE>>)
        ELSE Return(d)

\* Variant of AfterCall without `await tx.wait()`: the function goes on as
\* soon as the transaction is handed back.
AfterCallNoWait(c) ==
    IF c.cmd = "endAuctionNoBids"
    THEN Dispatch(c, "startAuction",
                  <<NEW_AUCTION_START_PRICE, NEW_AUCTION_END_PRICE>>)
    ELSE Return(c)

\* Lines 208-209, 216-217, 233-234, 240-241, 248-249: the transaction was
\* handed back; its hash is logged and tx.wait() is awaited.
AfterCall(c) == [c EXCEPT !.pc = "wait"]

\* Variant of AfterWait without lines 211-217: the auction is closed and not
\* reopened.
AfterWaitNoReopen(c) == Return([c EXCEPT !.confirmed = @ + 1])

\* Variant of AfterWait that also starts a new auction right after a
\* confirmed claimPayment.
AfterWaitReopenAfterClaim(c) ==
    LET d == [c EXCEPT !.confirmed = @ + 1]
    IN  IF c.cmd \in {"endAuctionNoBids", "claimPayment"}
        THEN Dispatch(d, "startAuction",
                      <<NEW_AUCTION_START_PRICE, NEW_AUCTION_END_PRICE>>)
        ELSE Return(d)

\* Lines 209-212 and the ends of the four branches: tx.wait() resolved.
\* endAuctionNoBids is called at line 207 only, and there startAuction follows.
AfterWait(c) ==
    LET d == [c EXCEPT !.confirmed = @ + 1]
    IN  IF c.cmd = "endAuctionNoBids"
        THEN Dispatch(d, "startAuction",
                      <<NEW_AUCTION_START_PRICE, NEW_AUCTION_END_PRICE>>)
        ELSE Return(d)

\* Variant of CatchOutcome: the catch block rethrows after logging.
CatchOutcomeRethrow == "thrown"

\* Lines 252-254: the catch block logs the error and falls off the end of the
\* function, so the promise of checkAuctionStatus resolves.
CatchOutcome == "failed"

\* Variant of Catch: a failure of endAuctionNoBids is caught around that call
\* alone, and the function goes on to line 211.
CatchAroundCloseOnly(c) ==
    LET d == [c EXCEPT !.error = [at |-> c.pc, cmd |-> c.cmd]]
    IN  IF c.cmd = "endAuctionNoBids"
        THEN Dispatch(d, "startAuction",
                      <<NEW_AUCTION_START_PRICE, NEW_AUCTION_END_PRICE>>)
        ELSE [d EXCEPT !.pc = CatchOutcome, !.cmd = NoCmd]

\* Lines 181, 252: an awaited promise was rejected inside the try block; the
\* rest of the block is skipped.
Catch(c) ==
    [c EXCEPT !.pc = CatchOutcome, !.cmd = NoCmd,
              !.error = [at |-> c.pc, cmd |-> c.cmd]]

(***************************************************************************)
(* Initial state: main() has called setupEventListeners() and the eager    *)
(* checkAuctionStatus() of line 268, which is suspended at its first read. *)
(* The contract may be in any state.                                       *)
(***************************************************************************)
\* Variant of TimerAtStartup: startPolling() is called before the await of
\* line 268.
TimerArmedAtStartup == "armed"

\* Lines 268-269: startPolling() comes after `await checkAuctionStatus()`, so
\* no timer exists while the startup invocation runs.
TimerAtStartup == "off"

\* Variant of TimerAfterFire: a one-shot timer (setTimeout).
TimerFiresOnce == "off"

\* Line 259: setInterval re-arms the timer every time it fires.
TimerAfterFire == "armed"

Init ==
    /\ ext \in ExtStates
    /\ mainPc = "startup"
    /\ timer = TimerAtStartup
    /\ last = [c |-> IdleCycle, startup |-> FALSE]
    /\ cyc = SetToBag({EnterCycle})
    /\ notified = FALSE

Alive == mainPc # "exited"

\* The suspended invocations, without their multiplicity.
Pending == BagToSet(cyc)

\* The suspended invocation c was resumed and ran to d.  If that was its end,
\* its locals are gone; `last` keeps how it ended.
Resume(c, d) ==
    IF Finished(d)
    THEN /\ cyc' = cyc (-) SetToBag({c})
         /\ last' = [c |-> d, startup |-> (mainPc = "startup")]
    ELSE /\ cyc' = (cyc (-) SetToBag({c})) (+) SetToBag({d})
         /\ last' = last

(***************************************************************************)
(* Resumptions of checkAuctionStatus.                                      *)
(***************************************************************************)
GetAuctionStateResolves(c) ==
    /\ Alive
    /\ c.pc = "getAuctionState"
    /\ Resume(c, AfterGetAuctionState(c, ext.isActive))
    /\ UNCHANGED <<ext, mainPc, timer, notified>>

GetWinnerInfoResolves(c) ==
    /\ Alive
    /\ c.pc = "getWinnerInfo"
    /\ Resume(c, AfterGetWinnerInfo(c,
                    [winner |-> ext.winner, winningTokenId |-> ext.winningTokenId]))
    /\ UNCHANGED <<ext, mainPc, timer, notified>>

GetAdminStateResolves(c) ==
    /\ Alive
    /\ c.pc = "getAdminState"
    /\ Resume(c, AfterGetAdminState(c, ext.proofSubmitted, ext.claimed))
    /\ UNCHANGED <<ext, mainPc, timer, notified>>

CallResolves(c) ==
    /\ Alive
    /\ c.pc = "call"
    /\ Resume(c, AfterCall(c))
    /\ UNCHANGED <<ext, mainPc, timer, notified>>

\* The transaction is committed and tx.wait() resolves.
WaitResolves(c) ==
    /\ Alive
    /\ c.pc = "wait"
    /\ ext' = ApplyCommand(c.cmd, ext)
    /\ Resume(c, AfterWait(c))
    /\ UNCHANGED <<mainPc, timer, notified>>

\* Any awaited promise may be rejected (transport failure, revert).  When it
\* is the confirmation that fails, the command may or may not have been
\* committed.
AwaitRejects(c) ==
    /\ Alive
    /\ Running(c)
    /\ Resume(c, Catch(c))
    /\ ext' \in IF c.pc = "wait"
                THEN {ext, ApplyCommand(c.cmd, ext)}
                ELSE {ext}
    /\ UNCHANGED <<mainPc, timer, notified>>

(***************************************************************************)
(* main() and the timer.                                                   *)
(***************************************************************************)
\* Lines 268-275: the awaited startup invocation settled.  If it resolved,
\* startPolling() arms the timer; if it was rejected, main() is rejected and
\* the handler of line 272 calls process.exit(1).
MainResumes ==
    /\ mainPc = "startup"
    /\ cyc = EmptyBag
    /\ mainPc' = IF last.c.pc = "thrown" THEN "exited" ELSE "polling"
    /\ timer' = IF last.c.pc = "thrown" THEN timer ELSE "armed"
    /\ UNCHANGED <<ext, cyc, last, notified>>

\* How many invocations are suspended.
InFlight == BagCardinality(cyc)

\* Line 259: POLL_INTERVAL after it was armed or last fired, the interval
\* timer fires and calls checkAuctionStatus().  The callback is called
\* whatever earlier invocations are doing; the guard on InFlight is the bound
\* of the model, not a test the code makes.
Tick ==
    /\ Alive
    /\ timer = "armed"
    /\ InFlight < MaxInFlight
    /\ cyc' = cyc (+) SetToBag({EnterCycle})
    /\ timer' = TimerAfterFire
    /\ UNCHANGED <<ext, mainPc, last, notified>>

(***************************************************************************)
(* The event listeners of setupEventListeners.  A notification can arrive   *)
(* at any time; its listener formats the payload and writes it to the      *)
(* console.                                                                *)
(***************************************************************************)
\* The body common to the six listeners: console.log of the event's fields.
LogNotification ==
    /\ Alive
    /\ notified' = ~notified
    /\ UNCHANGED <<ext, mainPc, timer, cyc, last>>

\* Lines 57-79.
OnAuctionStarted == LogNotification

\* Variant of OnAuctionEnded that reacts to the end of the auction by calling
\* checkAuctionStatus().
OnAuctionEndedReconciles ==
    /\ Alive
    /\ notified' = ~notified
    /\ cyc' = IF BagCardinality(cyc) < MaxInFlight
              THEN cyc (+) SetToBag({EnterCycle}) ELSE cyc
    /\ UNCHANGED <<ext, mainPc, timer, last>>

\* Lines 81-97.
OnAuctionEnded == LogNotification

\* Lines 99-117.
OnBidPlaced == LogNotification

\* Lines 119-127.
OnProofSubmitted == LogNotification

\* Lines 129-139.
OnPaymentClaimed == LogNotification

\* Lines 141-163.
OnWinningAdSelected == LogNotification

(***************************************************************************)
(* The environment: the running auction ends, with or without a winner.    *)
(***************************************************************************)
AuctionEnds ==
    /\ ext.isActive
    /\ \E w \in WinnerInfos :
          ext' = [ext EXCEPT !.isActive = FALSE, !.winner = w.winner,
                             !.winningTokenId = w.winningTokenId]
    /\ UNCHANGED <<mainPc, timer, cyc, last, notified>>

Next ==
    \/ \E c \in Pending : GetAuctionStateResolves(c)
    \/ \E c \in Pending : GetWinnerInfoResolves(c)
    \/ \E c \in Pending : GetAdminStateResolves(c)
    \/ \E c \in Pending : CallResolves(c)
    \/ \E c \in Pending : WaitResolves(c)
    \/ \E c \in Pending : AwaitRejects(c)
    \/ MainResumes
    \/ Tick
    \/ OnAuctionStarted
    \/ OnAuctionEnded
    \/ OnBidPlaced
    \/ OnProofSubmitted
    \/ OnPaymentClaimed
    \/ OnWinningAdSelected
    \/ AuctionEnds

Spec == Init /\ [][Next]_vars

\* The call of cmd, or its confirmation, goes through.
CallOfResolves(cmd) == \E c \in Pending : c.cmd = cmd /\ CallResolves(c)
WaitOfResolves(cmd) == \E c \in Pending : c.cmd = cmd /\ WaitResolves(c)

\* The program on a working event loop and a connection whose failures are
\* transient.  The event loop resumes main() once the promise it awaits is
\* settled and runs the timer: a period that has begun runs out and the tick
\* is delivered.  From some time on no awaited promise is rejected,
\* and every view function, call of a command and confirmation that stays
\* pending is answered.
FairSpec ==
    /\ Spec
    /\ WF_vars(MainResumes)
    /\ WF_vars(Tick)
    /\ WF_vars(\E c \in Pending : GetAuctionStateResolves(c))
    /\ WF_vars(\E c \in Pending : GetWinnerInfoResolves(c))
    /\ WF_vars(\E c \in Pending : GetAdminStateResolves(c))
    /\ \A cmd \in CommandNames :
          WF_vars(CallOfResolves(cmd)) /\ WF_vars(WaitOfResolves(cmd))
    /\ <>[][~\E c \in Pending : AwaitRejects(c)]_vars

(***************************************************************************)
(* Vocabulary of the properties.                                           *)
(***************************************************************************)
\* Every invocation the state shows: the suspended ones and the last finished.
AllCycles == Pending \cup {last.c}

\* The names of the commands the invocation called, in order.
IssuedNames(c) == [k \in 1..Len(c.issued) |-> c.issued[k].cmd]

\* The read has returned its value to the invocation.
SnapshotRead(c) ==
    /\ c.pc \notin {"idle", "getAuctionState"}
    /\ c.error.at # "getAuctionState"
WinnerRead(c) ==
    /\ Len(c.reads) >= 2
    /\ c.pc # "getWinnerInfo"
    /\ c.error.at # "getWinnerInfo"
SettlementRead(c) ==
    /\ Len(c.reads) >= 3
    /\ c.pc # "getAdminState"
    /\ c.error.at # "getAdminState"

ActiveCase(c) == SnapshotRead(c) /\ c.isActive
NoBidsCase(c) == WinnerRead(c) /\ ~c.isActive /\ c.winner = AddressZero
WinnerCase(c) == SettlementRead(c) /\ ~c.isActive /\ c.winner # AddressZero

TypeOK ==
    /\ ext \in ExtStates
    /\ mainPc \in {"startup", "polling", "exited"}
    /\ timer \in {"off", "armed"}
    /\ notified \in BOOLEAN
    /\ IsABag(cyc)
    /\ InFlight <= MaxInFlight
    /\ \A c \in Pending :
          /\ c.pc \in ReadNames \cup {"call", "wait"}
          /\ c.cmd \in CommandNames \cup {NoCmd}
          /\ Len(c.issued) <= 2
    /\ last.c.pc \in {"idle", "done", "failed"}

(***************************************************************************)
(* Properties.                                                             *)
(***************************************************************************)

\* C1: at most one invocation of checkAuctionStatus is in progress at any
\* time; a tick that falls due while one is suspended starts no second one.
OneCycleAtATime == InFlight <= 1

\* C2: at most one command submitted by the operator is outstanding
\* (submitted, neither confirmed nor failed) at any time.
OneCommandOutstanding ==
    BagCardinality([c \in {x \in Pending : Outstanding(x)} |-> cyc[c]]) <= 1

\* C3: an invocation whose snapshot says isActive calls no state-changing
\* function and no further view function: it returns after logging.
ActiveIssuesNothing ==
    \A c \in AllCycles :
        ActiveCase(c) =>
            /\ c.issued = <<>>
            /\ c.reads = <<"getAuctionState">>
            /\ c.pc = "done"

\* A finished invocation that saw an active auction.
ActiveWitness ==
    /\ ActiveCase(last.c)
    /\ last.c.pc = "done"
    /\ last.c.issued = <<>>

\* C4: an invocation that read a non-active snapshot and the sentinel winner
\* calls endAuctionNoBids, then startAuction, and nothing else; startAuction
\* is called only once endAuctionNoBids is confirmed, and the invocation
\* returns normally only with both called and both confirmed.  (An invocation
\* cut short by a failure has called a prefix of the two.)
NoBidsClosesThenReopens ==
    \A c \in AllCycles :
        NoBidsCase(c) =>
            /\ c.reads = <<"getAuctionState", "getWinnerInfo">>
            /\ IssuedNames(c) \in {<<"endAuctionNoBids">>,
                                   <<"endAuctionNoBids", "startAuction">>}
            /\ (Len(c.issued) = 2 => c.confirmed >= 1)
            /\ (c.pc = "done" =>
                    /\ IssuedNames(c) = <<"endAuctionNoBids", "startAuction">>
                    /\ c.confirmed = 2)
            /\ (c.pc \in {"call", "wait"} => c.confirmed = Len(c.issued) - 1)

\* A no-bids invocation that ran to its end.
NoBidsWitness ==
    /\ NoBidsCase(last.c)
    /\ last.c.pc = "done"
    /\ IssuedNames(last.c) = <<"endAuctionNoBids", "startAuction">>
    /\ last.c.confirmed = 2

\* C5: an invocation that read a non-active snapshot, a real winner and
\* proofSubmitted = false calls submitProof and nothing else, whatever
\* `claimed` is.
ProofPendingSubmitsProof ==
    \A c \in AllCycles :
        WinnerCase(c) /\ ~c.proofSubmitted =>
            /\ IssuedNames(c) = <<"submitProof">>
            /\ (c.pc = "done" => c.confirmed = 1)

\* A finished invocation that read proofSubmitted = false with claimed = true.
ProofPendingWitness ==
    /\ WinnerCase(last.c)
    /\ ~last.c.proofSubmitted /\ last.c.claimed
    /\ last.c.pc = "done"
    /\ IssuedNames(last.c) = <<"submitProof">>

\* C6: an invocation that read a non-active snapshot, a real winner,
\* proofSubmitted = true and claimed = false calls claimPayment and nothing
\* else.
PaymentPendingClaims ==
    \A c \in AllCycles :
        WinnerCase(c) /\ c.proofSubmitted /\ ~c.claimed =>
            /\ IssuedNames(c) = <<"claimPayment">>
            /\ (c.pc = "done" => c.confirmed = 1)

\* A finished invocation that claimed the payment.
PaymentPendingWitness ==
    /\ WinnerCase(last.c)
    /\ last.c.proofSubmitted /\ ~last.c.claimed
    /\ last.c.pc = "done"
    /\ IssuedNames(last.c) = <<"claimPayment">>

\* C7: an invocation that read a non-active snapshot, a real winner,
\* proofSubmitted = true and claimed = true calls startAuction and nothing
\* else.
SettledRestarts ==
    \A c \in AllCycles :
        WinnerCase(c) /\ c.proofSubmitted /\ c.claimed =>
            /\ IssuedNames(c) = <<"startAuction">>
            /\ (c.pc = "done" => c.confirmed = 1)

\* A finished invocation that restarted a fully settled auction.
SettledWitness ==
    /\ WinnerCase(last.c)
    /\ last.c.proofSubmitted /\ last.c.claimed
    /\ last.c.pc = "done"
    /\ IssuedNames(last.c) = <<"startAuction">>

\* C9 (as claimed): every invocation calls at most one state-changing
\* function.
AtMostOneDispatch == \A c \in AllCycles : Len(c.issued) <= 1

\* C9 (amended): an invocation calls at most one state-changing function,
\* except in the no-bids case, where it calls two: endAuctionNoBids followed
\* by startAuction.
AtMostOneDispatchUnlessNoBids ==
    \A c \in AllCycles :
        /\ Len(c.issued) <= 2
        /\ (~NoBidsCase(c) => Len(c.issued) <= 1)
        /\ (Len(c.issued) = 2 =>
                IssuedNames(c) = <<"endAuctionNoBids", "startAuction">>)

\* A no-bids invocation waiting for its second command, after an invocation
\* that finished with a single command.
TwoDispatchWitness ==
    /\ last.c.pc = "done" /\ Len(last.c.issued) = 1
    /\ \E c \in Pending :
          /\ NoBidsCase(c)
          /\ c.pc = "wait"
          /\ Len(c.issued) = 2

\* The invocation that finished last failed at claimPayment (at the call or
\* at the confirmation).
LastFailedClaim == last.c.pc = "failed" /\ last.c.error.cmd = "claimPayment"

\* C8: an invocation one of whose awaits was rejected is over, having called
\* nothing after the rejected await (no startAuction after a failed
\* endAuctionNoBids); every invocation starts at the snapshot read with
\* nothing carried over; after a failed claimPayment an invocation that reads
\* proofSubmitted = true, claimed = false calls claimPayment and nothing else.
AbortAndRestart ==
    /\ \A c \in Pending : c.error = NoError
    /\ \A c \in AllCycles :
          /\ (c.error # NoError =>
                /\ c.pc = "failed" /\ c.cmd = NoCmd
                /\ (c.error.at \in ReadNames =>
                        /\ c.issued = <<>>
                        /\ c.reads[Len(c.reads)] = c.error.at)
                /\ (c.error.at \in {"call", "wait"} =>
                        /\ Len(c.issued) >= 1
                        /\ c.issued[Len(c.issued)].cmd = c.error.cmd
                        /\ c.confirmed = Len(c.issued) - 1)
                /\ (c.error.cmd = "endAuctionNoBids" =>
                        IssuedNames(c) = <<"endAuctionNoBids">>))
          /\ (c.pc = "failed" => c.error # NoError)
          /\ (c.pc # "idle" => c.reads[1] = "getAuctionState")
          /\ (c.pc = "getAuctionState" => c = EnterCycle)
    /\ (LastFailedClaim =>
            \A c \in Pending :
                WinnerCase(c) /\ c.proofSubmitted /\ ~c.claimed =>
                    /\ IssuedNames(c) = <<"claimPayment">>
                    /\ c.reads =
                          <<"getAuctionState", "getWinnerInfo", "getAdminState">>)

\* The startup invocation failed at the confirmation of claimPayment; the
\* first periodic invocation, entered after it, read the unchanged state and
\* has called claimPayment again.
RetryClaimWitness ==
    /\ mainPc = "polling"
    /\ last.startup
    /\ last.c.pc = "failed"
    /\ last.c.error = [at |-> "wait", cmd |-> "claimPayment"]
    /\ \E c \in Pending :
          /\ WinnerCase(c)
          /\ c.proofSubmitted /\ ~c.claimed
          /\ IssuedNames(c) = <<"claimPayment">>

\* C10: no error leaves checkAuctionStatus: no invocation ends with a
\* rejected promise and the process never exits; after a failed invocation
\* main() can still arm the timer (startup) and the timer still runs and can
\* fire and enter a fresh invocation (polling).
ErrorsSwallowed ==
    /\ mainPc \in {"startup", "polling"}
    /\ \A c \in AllCycles : c.pc # "thrown"
    /\ (last.c.pc = "failed" =>
            /\ (mainPc = "startup" => ENABLED MainResumes)
            /\ (mainPc = "polling" => timer = "armed")
            /\ (timer = "armed" /\ InFlight < MaxInFlight => ENABLED Tick))
    /\ \A c \in Pending : c.pc = "getAuctionState" => c = EnterCycle

\* The eager startup invocation failed, the timer was armed all the same
\* and a tick has entered a fresh invocation.
FailedStartupThenTickWitness ==
    /\ mainPc = "polling"
    /\ last.startup
    /\ last.c.pc = "failed"
    /\ cyc = SetToBag({EnterCycle})

\* C11: the startup invocation is entered before any tick: while main() is
\* at its await the timer does not exist and nothing but the startup
\* invocation runs, and main() goes on as soon as that invocation is over.
\* From then on the timer is armed for ever: every firing enters one
\* invocation and leaves the timer armed for the next period, and the
\* process never exits, so that a further tick is always ahead.
TicksKeepFallingDue ==
    /\ [](/\ mainPc # "exited"
          /\ (mainPc = "startup" =>
                /\ timer = "off"
                /\ ~ENABLED Tick
                /\ (cyc # EmptyBag => cyc = SetToBag(Pending))
                /\ (cyc = EmptyBag => ENABLED MainResumes))
          /\ (mainPc = "polling" => timer = "armed")
          /\ (timer = "armed" /\ InFlight < MaxInFlight => ENABLED Tick))
    /\ [][/\ (timer = "off" /\ timer' # "off" =>
                mainPc = "startup" /\ mainPc' = "polling")
          /\ (timer = "armed" => timer' = "armed")
          /\ (BagCardinality(cyc') > InFlight =>
                /\ timer = "armed"
                /\ cyc' = cyc (+) SetToBag({EnterCycle}))]_vars

\* A periodic invocation has come and gone and the next tick has entered
\* another one.
SecondTickWitness ==
    /\ mainPc = "polling"
    /\ ~last.startup /\ last.c.pc = "done"
    /\ timer = "armed"
    /\ cyc = SetToBag({EnterCycle})

\* C20: the startup invocation never runs together with a periodic one.  As
\* long as main() awaits it there is no timer and no other invocation; the
\* timer is armed in the step in which main() resumes, with no invocation
\* left, and that step enters none: an invocation is entered only by a later
\* firing of the armed timer, one period after it was armed.
StartupNeverOverlaps ==
    /\ [](mainPc = "startup" =>
            /\ timer = "off"
            /\ InFlight <= 1
            /\ ~ENABLED Tick)
    /\ [][/\ (mainPc = "startup" /\ mainPc' # "startup" =>
                /\ cyc = EmptyBag /\ cyc' = EmptyBag
                /\ last.startup
                /\ timer = "off" /\ timer' = "armed")
          /\ (BagCardinality(cyc') > InFlight =>
                /\ mainPc = "polling"
                /\ timer = "armed"
                /\ cyc' = cyc (+) SetToBag({EnterCycle}))]_vars

\* The startup invocation is over, and the first periodic invocation has been
\* entered by the first tick.
FirstPeriodicAfterStartupWitness ==
    /\ mainPc = "polling"
    /\ last.startup /\ last.c.pc \in {"done", "failed"}
    /\ InFlight = 1
    /\ timer = "armed"

\* The view functions in the order of the code.
ReadOrder == <<"getAuctionState", "getWinnerInfo", "getAdminState">>

\* C14: within an invocation the reads come in the order getAuctionState,
\* getWinnerInfo, getAdminState, each at most once; getWinnerInfo is called
\* only after the snapshot came back with isActive = false, getAdminState only
\* after the winner came back and is not the zero address.  No invocation
\* calls getAdminState for the zero address or for an active auction.
ReadsOrderedAndLazy ==
    \A c \in AllCycles :
        /\ \E n \in 0..3 : c.reads = SubSeq(ReadOrder, 1, n)
        /\ (Len(c.reads) >= 2 => SnapshotRead(c) /\ ~c.isActive)
        /\ (Len(c.reads) >= 3 =>
                WinnerRead(c) /\ ~c.isActive /\ c.winner # AddressZero)
        /\ (ActiveCase(c) => Len(c.reads) = 1)
        /\ (WinnerRead(c) /\ c.winner = AddressZero => Len(c.reads) = 2)

\* The last invocation read all three; another one, having read the zero
\* address, is calling endAuctionNoBids without the admin state.
LazyReadsWitness ==
    /\ last.c.reads = ReadOrder
    /\ last.c.pc = "done"
    /\ \E c \in Pending :
          /\ c.pc = "call" /\ c.cmd = "endAuctionNoBids"
          /\ c.reads = <<"getAuctionState", "getWinnerInfo">>

\* C15: an invocation goes on only when the command it called is confirmed:
\* while a command is at its call or at its tx.wait() all the earlier ones of
\* the invocation are confirmed, an invocation that returned normally has all
\* its commands confirmed, and one that failed lacks at most the command it
\* failed at.  Nothing but the settling of the awaited promise takes an
\* invocation out of its wait: the passing of a period (the timer firing)
\* leaves every waiting invocation where it is.
CommandsAwaited ==
    /\ [](\A c \in AllCycles :
            /\ c.confirmed <= Len(c.issued)
            /\ (c.pc \in ReadNames => c.issued = <<>>)
            /\ (Outstanding(c) =>
                    /\ c.confirmed = Len(c.issued) - 1
                    /\ c.issued[Len(c.issued)].cmd = c.cmd)
            /\ (c.pc = "done" => c.confirmed = Len(c.issued))
            /\ (c.pc = "failed" => c.confirmed >= Len(c.issued) - 1))
    /\ [][BagCardinality(cyc') > InFlight =>
            \A c \in Pending :
                Outstanding(c) => c \in BagToSet(cyc') /\ cyc'[c] >= cyc[c]]_vars

\* An invocation is still waiting for the confirmation of submitProof while
\* the next tick has entered another invocation.
StillWaitingWitness ==
    /\ InFlight = 2
    /\ EnterCycle \in Pending
    /\ \E c \in Pending :
          /\ c.pc = "wait" /\ c.cmd = "submitProof"
          /\ c.confirmed = 0

\* What the invocation has read so far.
Observed(c) ==
    [snapshot |-> IF SnapshotRead(c) THEN <<c.isActive>> ELSE <<>>,
     winner |-> IF WinnerRead(c) THEN <<c.winner, c.winningTokenId>> ELSE <<>>,
     settlement |-> IF SettlementRead(c)
                    THEN <<c.proofSubmitted, c.claimed>> ELSE <<>>]

\* s is an initial part of t.
IsPrefix(s, t) == Len(s) <= Len(t) /\ s = SubSeq(t, 1, Len(s))

\* C16: the commands of an invocation are determined by what it read.  Of two
\* invocations that read the same values, whichever came first and however
\* the earlier one ended, one has called an initial part of what the other
\* called, with the same arguments, and the same when both returned normally.
CommandsDependOnReadsOnly ==
    \A c, d \in AllCycles :
        Observed(c) = Observed(d) =>
            /\ IsPrefix(IssuedNames(c), IssuedNames(d))
                    \/ IsPrefix(IssuedNames(d), IssuedNames(c))
            /\ \A k \in 1..Len(c.issued) :
                  k <= Len(d.issued) => c.issued[k] = d.issued[k]
            /\ (c.pc = "done" /\ d.pc = "done" => c.issued = d.issued)

\* The last invocation failed at submitProof; a later one that read the same
\* values is calling submitProof with the same arguments.
SameReadsSameCommandsWitness ==
    /\ last.c.pc = "failed" /\ last.c.error.cmd = "submitProof"
    /\ \E c \in Pending :
          /\ SettlementRead(c)
          /\ Observed(c) = Observed(last.c)
          /\ c.issued = last.c.issued
          /\ c.pc = "call"

\* C17: submitProof is called with the winningTokenId the same invocation
\* read and the 32 zero bytes, claimPayment with that winningTokenId,
\* startAuction always with 100 and 10 (scaled by 10^18), endAuctionNoBids
\* with nothing.
ArgumentsFixed ==
    \A c \in AllCycles :
        \A k \in 1..Len(c.issued) :
            LET cmd == c.issued[k].cmd
                args == c.issued[k].args
            IN  /\ (cmd = "submitProof" =>
                      /\ WinnerRead(c)
                      /\ Len(args) = 2
                      /\ args[1] = c.winningTokenId
                      /\ args[2] = "0x0000000000000000000000000000000000000000000000000000000000000000")
                /\ (cmd = "claimPayment" =>
                      /\ WinnerRead(c)
                      /\ args = <<c.winningTokenId>>)
                /\ (cmd = "startAuction" =>
                      args = <<[value |-> 100, decimals |-> 18],
                               [value |-> 10, decimals |-> 18]>>)
                /\ (cmd = "endAuctionNoBids" => args = <<>>)

\* An invocation that read token 8 after one that read token 7: it has called
\* claimPayment(8), the earlier one submitProof(7, zeroProof).
ArgumentsWitness ==
    /\ last.c.pc = "done"
    /\ last.c.issued = <<[cmd |-> "submitProof", args |-> <<7, zeroProof>>]>>
    /\ \E c \in Pending :
          /\ c.winningTokenId = 8
          /\ IssuedNames(c) = <<"claimPayment">>
          /\ c.issued[1].args = <<8>>

\* In this step an invocation called the command: an invocation suspended at
\* the call of cmd is there that was not there before.
JustDispatched(cmd) ==
    \E d \in BagToSet(cyc') :
        /\ d.pc = "call" /\ d.cmd = cmd
        /\ (d \in Pending => cyc'[d] > cyc[d])

\* C12: no command is called in a state of the contract in which the effect
\* of that command is already in place.
NeverReissuesCommitted ==
    [][\A cmd \in CommandNames : JustDispatched(cmd) => ~InEffect(cmd, ext')]_vars

\* The startup invocation, alone, had endAuctionNoBids confirmed and failed at
\* startAuction; the first periodic invocation, alone as well, read the same
\* snapshot and winner and is calling endAuctionNoBids on the closed auction.
CloseReissuedWitness ==
    /\ last.startup
    /\ last.c.pc = "failed"
    /\ last.c.error.cmd = "startAuction"
    /\ last.c.confirmed = 1
    /\ ext.ended
    /\ \E c \in Pending :
          /\ cyc = SetToBag({c})
          /\ c.pc = "call" /\ c.cmd = "endAuctionNoBids"

\* C13: when the auction has ended with a real winner, claimPayment is called
\* only in a state of the contract that shows proofSubmitted, and
\* startAuction only in one that shows proofSubmitted and claimed.
SettlementOrderAtSubmission ==
    [][/\ (JustDispatched("claimPayment") => ext'.proofSubmitted)
       /\ (/\ JustDispatched("startAuction")
           /\ ~ext'.isActive
           /\ ext'.winner # AddressZero
           => ext'.proofSubmitted /\ ext'.claimed)]_vars

\* A no-bids invocation is calling startAuction, its endAuctionNoBids just
\* confirmed, while the contract shows an ended auction with a real winner
\* whose proof is not submitted.
RestartOverUnsettledWinnerWitness ==
    /\ ~ext.isActive /\ ext.winner # AddressZero /\ ~ext.proofSubmitted
    /\ \E c \in Pending :
          /\ NoBidsCase(c)
          /\ c.pc = "call" /\ c.cmd = "startAuction"

\* C19: on a working event loop and a connection whose failures are
\* transient, whenever the auction is not active (no bids, proof pending,
\* payment pending or settled) it is active again later, and it becomes
\* active only by a startAuction of the operator that was waiting for its
\* confirmation.
AuctionRestartsEventually ==
    /\ ~ext.isActive ~> ext.isActive
    /\ [][~ext.isActive /\ ext'.isActive =>
            \E c \in Pending : c.pc = "wait" /\ c.cmd = "startAuction"]_vars

\* The startup invocation found a winner whose proof was pending; periodic
\* invocations have since settled the auction and the last one has restarted
\* it.
RestartedAfterSettlementWitness ==
    /\ ext.isActive
    /\ ~last.startup
    /\ last.c.pc = "done"
    /\ IssuedNames(last.c) = <<"startAuction">>
    /\ last.c.confirmed = 1
    /\ cyc = EmptyBag

\* C18: a step of an event listener submits no command and changes nothing
\* the reconciliation reads or decides on: the contract's state, the
\* suspended invocations, the last result, main() and the timer are as
\* before, whatever the invocations were doing.
HandlersOnlyObserve ==
    [][notified' # notified =>
            /\ UNCHANGED <<ext, mainPc, timer, cyc, last>>
            /\ \A cmd \in CommandNames : ~JustDispatched(cmd)]_vars

\* A notification has been logged while an invocation waits for the
\* confirmation of a command, after another invocation finished.
NotifiedDuringCycleWitness ==
    /\ notified
    /\ last.c.pc = "done"
    /\ \E c \in Pending : c.pc = "wait" /\ c.cmd = "claimPayment"

====
